---- MODULE Spec2Model ----
(***************************************************************************)
(* Wave propagation through a street network: the Model session            *)
(* (set_source, set_receiver, solve), its path enumeration, the junction   *)
(* classifier and the composition of the integrand.                        *)
(*                                                                         *)
(* Python lists are modelled as sequences: list index i is sequence index  *)
(* i+1.  Dictionaries are functions over their key sets.  Real-valued      *)
(* functions of theta are modelled symbolically by what they are built     *)
(* from (shape, ratio, which angle they are evaluated at).                 *)
(***************************************************************************)
EXTENDS Integers, Sequences, FiniteSets, TLC

VARIABLES
    modified_adjacency,      \* Model.__modified_adjacency
    graph,                   \* Model.__graph, as its adjacency lists
    source,                  \* Model.__source
    distance_from_source,    \* Model.__distance_from_source
    receiver,                \* Model.__receiver
    distance_from_receiver,  \* Model.__distance_from_receiver
    call,                    \* the most recent call and its arguments
    ret                      \* what that call returned or raised

vars == <<modified_adjacency, graph, source, distance_from_source,
          receiver, distance_from_receiver, call, ret>>

\* ------------------------------------------------------------- bounds
\* Largest threshold passed to solve / the path enumeration.
MaxThreshold == 2
Thresholds == 0..MaxThreshold
\* Node count of the graphs the path enumeration is checked on.
NumNodes == 4

\* Python's None (Model.__init__ sets source and receiver to None).
None == -1

\* --------------------------------------------------- topology (networkx)
\* Nodes of a graph.
NodesOf(g) == DOMAIN g

\* nx.from_numpy_matrix: one undirected edge per non-zero cell of the matrix,
\* added row by row.  The graph is kept as its adjacency: for every node the
\* list of its neighbors in the order in which they were first added.
InsertNeighbor(nbrs, v) ==
    IF \E i \in 1..Len(nbrs) : nbrs[i] = v THEN nbrs ELSE Append(nbrs, v)

\* add_edge(i, j): j enters the adjacency of i, and i that of j.
AddEdge(adj, i, j) ==
    LET first == [adj EXCEPT ![i] = InsertNeighbor(@, j)]
    IN  [first EXCEPT ![j] = InsertNeighbor(@, i)]

\* The adjacency once the cells 0 .. c of the matrix, counted row by row,
\* have been added.
RECURSIVE AddEdges(_, _)
AddEdges(a, c) ==
    IF c < 0 THEN [u \in DOMAIN a |-> <<>>]
    ELSE LET adj == AddEdges(a, c - 1)
             n == Cardinality(DOMAIN a)
         IN  IF a[c \div n][c % n] # 0 THEN AddEdge(adj, c \div n, c % n)
             ELSE adj

FromNumpyMatrix(a) ==
    AddEdges(a, Cardinality(DOMAIN a) * Cardinality(DOMAIN a) - 1)

\* graph.neighbors(u)
Neighbors(g, u) == g[u]

NeighborSet(g, u) == {Neighbors(g, u)[i] : i \in 1..Len(Neighbors(g, u))}

\* Hop distances from node r to every node reachable from it (breadth first;
\* every edge weighs 1).  Unreachable nodes are not keys of the result.
RECURSIVE Bfs(_, _, _, _)
Bfs(g, frontier, dist, d) ==
    IF frontier = {} THEN dist
    ELSE LET known == DOMAIN dist \cup frontier
             dist2 == [x \in known |-> IF x \in DOMAIN dist THEN dist[x] ELSE d]
             next  == UNION {NeighborSet(g, u) : u \in frontier} \ known
         IN  Bfs(g, next, dist2, d + 1)

\* nx.all_pairs_dijkstra_path_length(graph)[r]
DijkstraFrom(g, r) == Bfs(g, {r}, <<>>, 0)

\* nx.shortest_path_length(graph, s, r); None stands for NetworkXNoPath.
ShortestPathLength(g, s, r) ==
    LET dist == DijkstraFrom(g, s)
    IN  IF r \in DOMAIN dist THEN dist[r] ELSE None

\* --------------------------------------------------- path enumeration
\* Model.__find_paths: for every neighbor, every continuation found with
\* budget n-1 is prefixed with element when the element's distance to the
\* receiver is below n; the receiver always contributes [receiver] last.
RECURSIVE FindPaths(_, _, _, _, _)
FindPaths(g, distances_dictionary, rcv, element, n) ==
    LET nbrs == Neighbors(g, element)
        Extend(sub) ==
            IF Len(sub) = 0 THEN <<>>
            ELSE IF distances_dictionary[element] < n
                 THEN [j \in 1..Len(sub) |-> <<element>> \o sub[j]]
                 ELSE <<>>
        Loop[i \in 0..Len(nbrs)] ==
            IF i = 0 THEN <<>>
            ELSE Loop[i - 1] \o
                 Extend(FindPaths(g, distances_dictionary, rcv, nbrs[i], n - 1))
        paths == IF n > 0 THEN Loop[Len(nbrs)] ELSE <<>>
    IN  IF element = rcv THEN Append(paths, <<element>>) ELSE paths

\* Faulty variant: the budget passed down is one too large.
ComputePathsLongBudget(g, s, r, treshold) ==
    LET cutoff == ShortestPathLength(g, s, r) + treshold
    IN  FindPaths(g, DijkstraFrom(g, r), r, s, cutoff + 2)

\* Model.__compute_paths (source and receiver connected).
ComputePaths(g, s, r, treshold) ==
    LET shortest_length == ShortestPathLength(g, s, r)
        cutoff == shortest_length + treshold
        distances_dictionary == DijkstraFrom(g, r)
    IN  FindPaths(g, distances_dictionary, r, s, cutoff + 1)

\* ------------------------------------------------ dictionaries
\* d[k] = v on a Python dict.
Put(d, k, v) == [x \in DOMAIN d \cup {k} |-> IF x = k THEN v ELSE d[x]]

\* ------------------------------------------------ modified adjacency
\* A cell of the modified adjacency matrix holds a street record
\* (length, width, alpha, orientation) or the no-street marker.
NoStreet == [absent |-> 0]

IsStreet(cell) == "length" \in DOMAIN cell

\* Model.__create_adjacency: 1 where the modified matrix holds a street.
CreateAdjacency(m) ==
    [i \in DOMAIN m |-> [j \in DOMAIN m |-> IF IsStreet(m[i][j]) THEN 1 ELSE 0]]

\* ------------------------------------------------ Junction (junction.py)
\* Methods the Junction class defines (junction.py defines no
\* compute_breaking_point).
JunctionMethods ==
    {"__init__", "__define_junction", "compute_function",
     "correct_orientation", "__validate_junction"}

ErrNoSuchJunction == "ValueError: No such junction type"
ErrNotImplemented == "ValueError: This junction is not (yet) implemented"
ErrPathTooShort   == "ValueError: Path too short."

\* junction_size = len(widths) - 1
JunctionSize(widths) == Cardinality(DOMAIN widths) - 1

\* Junction.__define_junction: the category, or the exception raised.  The
\* else branch formats its message with the name current, which is not bound
\* in this method: evaluating it raises NameError before ValueError is built.
DefineJunction(widths) ==
    LET junction_size == JunctionSize(widths)
    IN  IF junction_size = 1 THEN [raised |-> "", junction |-> "dead-end"]
        ELSE IF junction_size = 2 THEN [raised |-> "", junction |-> "bend"]
        ELSE IF junction_size = 3
             THEN IF "left" \in DOMAIN widths /\ "right" \in DOMAIN widths
                  THEN [raised |-> "", junction |-> "t-junction"]
                  ELSE [raised |-> "", junction |-> "side-street"]
        ELSE IF junction_size = 4 THEN [raised |-> "", junction |-> "crossroads"]
        ELSE [raised |-> "NameError", junction |-> "None"]

\* widths[a] == widths[b], with the KeyError of a missing key.
SameWidth(widths, a, b) ==
    IF a \notin DOMAIN widths \/ b \notin DOMAIN widths THEN "KeyError"
    ELSE IF widths[a] = widths[b] THEN "True" ELSE "False"

\* Junction.__validate_junction: "" when it returns, else the exception.
ValidateJunction(junction, widths) ==
    IF junction = "bend" THEN ""
    ELSE IF junction = "t-junction"
         THEN LET eq == SameWidth(widths, "left", "right")
              IN  IF eq = "KeyError" THEN "KeyError"
                  ELSE IF eq = "False" THEN ErrNotImplemented ELSE ""
    ELSE IF junction = "side-street"
         THEN LET eq == SameWidth(widths, "backward", "forward")
              IN  IF eq = "KeyError" THEN "KeyError"
                  ELSE IF eq = "False" THEN ErrNotImplemented ELSE ""
    ELSE IF junction = "crossroads"
         THEN LET bf == SameWidth(widths, "backward", "forward")
              IN  IF bf = "KeyError" THEN "KeyError"
                  ELSE IF bf = "False" THEN ErrNotImplemented
                  ELSE LET lr == SameWidth(widths, "left", "right")
                       IN  IF lr = "KeyError" THEN "KeyError"
                           ELSE IF lr = "False" THEN ErrNotImplemented ELSE ""
    ELSE ""

\* Junction.__init__: the object's fields, or the exception raised.  ratio is
\* exiting/entry, kept as the pair <<exiting, entry>>; the division raises
\* ZeroDivisionError when the entry street has width 0.
JunctionInit(widths) ==
    LET defined == DefineJunction(widths)
        blank == [raised |-> "", junction |-> defined.junction,
                  next |-> "", ratio |-> <<0, 0>>]
    IN  IF defined.raised # "" THEN [blank EXCEPT !.raised = defined.raised]
        ELSE LET invalid == ValidateJunction(defined.junction, widths)
             IN  IF invalid # "" THEN [blank EXCEPT !.raised = invalid]
                 ELSE IF \/ "next" \notin DOMAIN widths
                         \/ "backward" \notin DOMAIN widths
                         \/ widths["next"] \notin DOMAIN widths
                      THEN [blank EXCEPT !.raised = "KeyError"]
                      ELSE IF widths["backward"] = 0
                      THEN [blank EXCEPT !.raised = "ZeroDivisionError"]
                      ELSE [blank EXCEPT
                              !.next = widths["next"],
                              !.ratio = <<widths[widths["next"]],
                                          widths["backward"]>>]

\* The transmission function, symbolically: times * shape(theta, r) with
\* r = ratio[1] * num / (ratio[2] * den); crossing(theta, r) =
\* max(1 - r tan theta, 0), turning(theta, r) = 0.5 min(r tan theta, 1).
Fn(shape, times, self, num, den) ==
    [shape |-> shape, times |-> times,
     ratio |-> <<self.ratio[1] * num, self.ratio[2] * den>>]

\* Junction.compute_function
ComputeFunction(self) ==
    IF self.junction = "dead-end" THEN Fn("one", 1, self, 1, 1)
    ELSE IF self.junction = "bend"
         THEN IF self.next = "backward" THEN Fn("crossing", 1, self, 1, 1)
              ELSE Fn("turning", 2, self, 1, 1)
    ELSE IF self.junction = "t-junction"
         THEN IF self.next = "backward" THEN Fn("crossing", 1, self, 2, 1)
              ELSE Fn("turning", 1, self, 2, 1)
    ELSE IF self.junction = "side-street"
         THEN IF self.next = "forward" THEN Fn("crossing", 1, self, 1, 2)
              ELSE IF self.next = "backward" THEN Fn("zero", 1, self, 1, 1)
              ELSE Fn("turning", 2, self, 1, 2)
    ELSE IF self.next = "forward" THEN Fn("crossing", 1, self, 1, 1)
         ELSE IF self.next = "backward" THEN Fn("zero", 1, self, 1, 1)
         ELSE Fn("turning", 1, self, 1, 1)

\* Junction.correct_orientation, on the exit direction the junction stores.
CorrectOrientation(next) ==
    IF next = "backward" \/ next = "forward" THEN 0 ELSE 1

\* ------------------------------------------------ Model.__rotate
\* The direction key of an edge with orientation o, seen from an entry edge
\* with the given orientation (the elif chain of __rotate), "" if none.
DirectionOf(o, orientation) ==
    IF o = (orientation + 3) % 4 THEN "left"
    ELSE IF o = (orientation + 2) % 4 THEN "forward"
    ELSE IF o = (orientation + 1) % 4 THEN "right"
    ELSE IF o = orientation THEN "backward"
    ELSE ""

\* Model.__rotate: the widths dictionary of the junction at current.
Rotate(m, g, previous, current, following) ==
    LET orientation == m[current][previous].orientation
        nbrs == Neighbors(g, current)
        Loop[i \in 0..Len(nbrs)] ==
            IF i = 0 THEN ("entry" :> m[current][previous].width)
            ELSE LET neighbor == nbrs[i]
                     key == DirectionOf(m[current][neighbor].orientation,
                                        orientation)
                     set == IF key = "" THEN Loop[i - 1]
                            ELSE Put(Loop[i - 1], key, m[current][neighbor].width)
                 IN  IF key # "" /\ following = neighbor
                     THEN Put(set, "next", key) ELSE set
    IN  Loop[Len(nbrs)]

\* __rotate subscripts the cell of the entry street and of every neighbor of
\* current; a cell that holds 0 (a street entered in the other direction
\* only) makes it raise TypeError.
RotateRaises(m, g, previous, current) ==
    LET nbrs == Neighbors(g, current)
    IN  \/ ~IsStreet(m[current][previous])
        \/ \E i \in 1..Len(nbrs) : ~IsStreet(m[current][nbrs[i]])

\* ------------------------------------------------ Model.__walk
NoFn == [shape |-> "", times |-> 0, ratio |-> <<0, 0>>]
NoIntegrand == [path |-> <<>>, functions |-> <<>>, rotations |-> <<>>,
                lengths |-> <<>>, alphas |-> <<>>]
NoAt == [node |-> None, widths |-> <<>>, junction |-> "None",
         functions |-> <<>>, rotations |-> <<>>]

\* functions.append(junction.compute_function());
\* rotation = (rotation + junction.correct_orientation()) % 2;
\* rotations.append(rotation)
AccJunction(acc, self) ==
    LET rotation == (acc.rotation + CorrectOrientation(self.next)) % 2
    IN  [acc EXCEPT !.functions = Append(@, ComputeFunction(self)),
                    !.rotation = rotation,
                    !.rotations = Append(@, rotation)]

\* lengths.append(street["length"]); alphas.append(street["alpha"])
AccStreet(acc, street) ==
    [acc EXCEPT !.lengths = Append(@, street.length),
                !.alphas = Append(@, street.alpha)]

\* functions = [], rotations = [0], rotation = 0, and the first street.
AccStart(street) ==
    [functions |-> <<>>, rotations |-> <<0>>, rotation |-> 0,
     lengths |-> <<street.length>>, alphas |-> <<street.alpha>>]

\* lengths[0] -= distance_from_source; lengths[-1] -= distance_from_receiver
SubtractDistances(lengths, from_source, from_receiver) ==
    LET first == [lengths EXCEPT ![1] = @ - from_source]
    IN  [first EXCEPT ![Len(first)] = @ - from_receiver]

\* The integrand record __walk returns.
IntegrandOf(path, acc, from_source, from_receiver) ==
    [path |-> path, functions |-> acc.functions, rotations |-> acc.rotations,
     lengths |-> SubtractDistances(acc.lengths, from_source, from_receiver),
     alphas |-> acc.alphas]

\* The for loop of __walk from sequence position k (list index k-1) on; it
\* stops at the first exception.  After the rotation of a junction is
\* recorded the loop calls junction.compute_breaking_point().
RECURSIVE WalkLoop(_, _, _, _, _)
WalkLoop(m, g, path, k, acc) ==
    IF k > Len(path) - 1
    THEN [raised |-> "", inside |-> "", at |-> NoAt, acc |-> acc]
    ELSE LET previous == path[k - 1]
             current == path[k]
             following == path[k + 1]
             widths == Rotate(m, g, previous, current, following)
             junction == JunctionInit(widths)
             at == [node |-> current, widths |-> widths,
                    junction |-> junction.junction,
                    functions |-> acc.functions, rotations |-> acc.rotations]
         IN  IF RotateRaises(m, g, previous, current)
             THEN [raised |-> "TypeError", inside |-> "__rotate",
                   at |-> NoAt, acc |-> acc]
             ELSE IF junction.raised # ""
             THEN [raised |-> junction.raised, inside |-> "Junction.__init__",
                   at |-> at, acc |-> acc]
             ELSE LET acc2 == AccJunction(acc, junction)
                  IN  IF "compute_breaking_point" \notin JunctionMethods
                      THEN [raised |-> "AttributeError", inside |-> "__walk",
                            at |-> [at EXCEPT !.functions = acc2.functions,
                                              !.rotations = acc2.rotations],
                            acc |-> acc2]
                      ELSE WalkLoop(m, g, path, k + 1,
                                    AccStreet(acc2, m[current][following]))

\* Model.__walk: the integrand, or the exception raised.
Walk(m, g, from_source, from_receiver, path) ==
    IF Len(path) > 1 /\ ~IsStreet(m[path[1]][path[2]])
    THEN [raised |-> "TypeError", inside |-> "__walk", at |-> NoAt,
          integrand |-> NoIntegrand]
    ELSE IF Len(path) > 1
    THEN LET done == WalkLoop(m, g, path, 2, AccStart(m[path[1]][path[2]]))
         IN  [raised |-> done.raised, inside |-> done.inside, at |-> done.at,
              integrand |-> IF done.raised # "" THEN NoIntegrand
                            ELSE IntegrandOf(path, done.acc,
                                             from_source, from_receiver)]
    ELSE [raised |-> ErrPathTooShort, inside |-> "__walk", at |-> NoAt,
          integrand |-> NoIntegrand]

\* Faulty variant: the first street's record is itself shortened by the source's
\* distance.
StoreAfterWalkAliased(m, path, from_source, from_receiver) ==
    [m EXCEPT ![path[1]][path[2]].length = @ - from_source]

\* The modified adjacency after a completed __walk(path): lengths is a new
\* list of the numbers read from the records, and the subtraction assigns to
\* slots of that list, so no record changes.
StoreAfterWalk(m, path, from_source, from_receiver) == m

\* ------------------------------------------------ Model.__integrate
\* The factors of compose_function(theta), in the order they are multiplied.
\* rotated = 1: the factor is evaluated at pi/2 - theta, else at theta.
InvPi == [kind |-> "1/pi", alpha |-> 0, length |-> 0, fn |-> NoFn, rotated |-> 0]
Atten(alpha, length, rotated) ==
    [kind |-> "atten", alpha |-> alpha, length |-> length, fn |-> NoFn,
     rotated |-> rotated]
Transmit(fn, rotated) ==
    [kind |-> "junction", alpha |-> 0, length |-> 0, fn |-> fn,
     rotated |-> rotated]

\* compose_function: 1/pi times the first street's attenuation; for list
\* index i in 1..len(path)-2 the attenuation of street i and functions[i-1],
\* both at the angle rotations[i] selects; then the attenuation of the last
\* street (alphas[-1], lengths[-1]) at the angle rotations[-1] selects.
ComposeFunction(ig) ==
    LET Loop[i \in 0..(Len(ig.path) - 2)] ==
            IF i = 0 THEN <<InvPi, Atten(ig.alphas[1], ig.lengths[1], 0)>>
            ELSE Loop[i - 1] \o
                 <<Atten(ig.alphas[i + 1], ig.lengths[i + 1], ig.rotations[i + 1]),
                   Transmit(ig.functions[i], ig.rotations[i + 1])>>
    IN  Append(Loop[Len(ig.path) - 2],
               Atten(ig.alphas[Len(ig.alphas)], ig.lengths[Len(ig.lengths)],
                     ig.rotations[Len(ig.rotations)]))

\* Model.__integrate: the integral over [0, pi/2] of the composed function,
\* kept as that function's factors.
Integrate(ig) == ComposeFunction(ig)

\* ------------------------------------------------ return values
NoRet == [kind |-> "none", error |-> "", inside |-> "", paths |-> <<>>,
          terms |-> <<>>, at |-> NoAt]
NoCall == [op |-> "init", node |-> None, distance |-> None, treshold |-> None]

\* ------------------------------------------------ Model.solve
\* The loop of solve over paths from position i on: power is the sum of the
\* integrals, kept as the sequence of its terms; the first exception ends it.
RECURSIVE SolveLoop(_, _, _, _, _, _, _)
SolveLoop(m, g, from_source, from_receiver, paths, i, terms) ==
    IF i > Len(paths)
    THEN [NoRet EXCEPT !.kind = "power", !.paths = paths, !.terms = terms]
    ELSE LET walked == Walk(m, g, from_source, from_receiver, paths[i])
         IN  IF walked.raised # ""
             THEN [NoRet EXCEPT !.kind = "error", !.error = walked.raised,
                                !.inside = walked.inside, !.paths = paths,
                                !.at = walked.at]
             ELSE SolveLoop(m, g, from_source, from_receiver, paths, i + 1,
                            Append(terms, Integrate(walked.integrand)))

\* Model.solve: the power returned, or the exception raised.
SolveOutcome(m, g, s, from_source, r, from_receiver, treshold) ==
    IF s = None \/ r = None
    THEN [NoRet EXCEPT !.kind = "error", !.error = "AssertionError",
                       !.inside = "solve"]
    ELSE IF ShortestPathLength(g, s, r) = None
    THEN [NoRet EXCEPT !.kind = "error", !.error = "NetworkXNoPath",
                       !.inside = "__compute_paths"]
    ELSE SolveLoop(m, g, from_source, from_receiver,
                   ComputePaths(g, s, r, treshold), 1, <<>>)

\* The modified adjacency after solve: every path walked to the end has had
\* its effect on the store.
RECURSIVE StoreAfterPaths(_, _, _, _, _, _)
StoreAfterPaths(m, g, from_source, from_receiver, paths, i) ==
    IF i > Len(paths) THEN m
    ELSE IF Walk(m, g, from_source, from_receiver, paths[i]).raised # "" THEN m
    ELSE StoreAfterPaths(
             StoreAfterWalk(m, paths[i], from_source, from_receiver),
             g, from_source, from_receiver, paths, i + 1)

StoreAfterSolve(m, g, s, from_source, r, from_receiver, treshold) ==
    IF s = None \/ r = None \/ ShortestPathLength(g, s, r) = None THEN m
    ELSE StoreAfterPaths(m, g, from_source, from_receiver,
                         ComputePaths(g, s, r, treshold), 1)

\* ---------------------------------------- specification: path enumeration
PathNodes == 0..(NumNodes - 1)

\* The street networks on PathNodes: any set of streets between two nodes,
\* and with it at most one street from a node to itself (a diagonal cell of
\* the matrix, a self-loop of the graph).  Every street is entered in both
\* cells.
NodePairs == {e \in SUBSET PathNodes : Cardinality(e) = 2}

SelfLoops == {{}} \cup {{{u}} : u \in PathNodes}

PathStreet == [length |-> 1, width |-> 1, alpha |-> 0, orientation |-> 0]

MatrixOf(edges) ==
    [i \in PathNodes |-> [j \in PathNodes |->
        IF {i, j} \in edges THEN PathStreet ELSE NoStreet]]

Networks ==
    {MatrixOf(pairs \cup loop) : pairs \in SUBSET NodePairs, loop \in SelfLoops}

\* Model.__init__ on any of the networks, with source and receiver set.
InitPaths ==
    /\ modified_adjacency \in Networks
    /\ graph = FromNumpyMatrix(CreateAdjacency(modified_adjacency))
    /\ source \in PathNodes
    /\ receiver \in PathNodes
    /\ distance_from_source = 0
    /\ distance_from_receiver = 0
    /\ call = NoCall
    /\ ret = NoRet

\* One call of __compute_paths: the paths, or NetworkXNoPath when source and
\* receiver are not connected.
CallComputePaths(t) ==
    /\ call.op = "init"
    /\ call' = [NoCall EXCEPT !.op = "compute_paths", !.treshold = t]
    /\ ret' = IF ShortestPathLength(graph, source, receiver) = None
              THEN [NoRet EXCEPT !.kind = "error", !.error = "NetworkXNoPath",
                                 !.inside = "__compute_paths"]
              ELSE [NoRet EXCEPT !.kind = "paths",
                       !.paths = ComputePaths(graph, source, receiver, t)]
    /\ UNCHANGED <<modified_adjacency, graph, source, distance_from_source,
                   receiver, distance_from_receiver>>

NextPaths == \E t \in Thresholds : CallComputePaths(t)

SpecPaths == InitPaths /\ [][NextPaths]_vars

\* ---------------------------------------- specification: Model session
\* Largest street width, and the distance a source or receiver may sit from
\* its node.
MaxWidth == 2
MaxOffset == 1

\* The street networks: a junction at node 0 (the center) with up to four
\* streets, street a leading to node a and leaving node 0 in compass
\* direction a - 1.
ArmNodes == 1..4
StarNodes == 0..4
ArmWidths == {0, 1, MaxWidth}      \* 0: the street does not exist
Offsets == {0, MaxOffset}

StreetLength(a) == 2 * a + 1
StreetAlpha(a) == 10 * a           \* absorption, in percent

StarMatrix(w) ==
    [i \in StarNodes |-> [j \in StarNodes |->
        IF i = 0 /\ j \in ArmNodes /\ w[j] # 0
        THEN [length |-> StreetLength(j), width |-> w[j],
              alpha |-> StreetAlpha(j), orientation |-> j - 1]
        ELSE IF j = 0 /\ i \in ArmNodes /\ w[i] # 0
        THEN [length |-> StreetLength(i), width |-> w[i],
              alpha |-> StreetAlpha(i), orientation |-> (i + 1) % 4]
        ELSE NoStreet]]

\* Model.__init__
Init ==
    /\ \E w \in [ArmNodes -> ArmWidths] : modified_adjacency = StarMatrix(w)
    /\ graph = FromNumpyMatrix(CreateAdjacency(modified_adjacency))
    /\ source = None
    /\ distance_from_source = None
    /\ receiver = None
    /\ distance_from_receiver = None
    /\ call = NoCall
    /\ ret = NoRet

\* Model.set_source
SetSource(node, distance) ==
    /\ source' = node
    /\ distance_from_source' = distance
    /\ call' = [NoCall EXCEPT !.op = "set_source", !.node = node,
                              !.distance = distance]
    /\ ret' = NoRet
    /\ UNCHANGED <<modified_adjacency, graph, receiver,
                   distance_from_receiver>>

\* Model.set_receiver
SetReceiver(node, distance) ==
    /\ receiver' = node
    /\ distance_from_receiver' = distance
    /\ call' = [NoCall EXCEPT !.op = "set_receiver", !.node = node,
                              !.distance = distance]
    /\ ret' = NoRet
    /\ UNCHANGED <<modified_adjacency, graph, source, distance_from_source>>

\* Model.solve
Solve(treshold) ==
    /\ call' = [NoCall EXCEPT !.op = "solve", !.treshold = treshold]
    /\ ret' = SolveOutcome(modified_adjacency, graph, source,
                           distance_from_source, receiver,
                           distance_from_receiver, treshold)
    /\ modified_adjacency' =
           StoreAfterSolve(modified_adjacency, graph, source,
                           distance_from_source, receiver,
                           distance_from_receiver, treshold)
    /\ UNCHANGED <<graph, source, distance_from_source, receiver,
                   distance_from_receiver>>

Next ==
    \/ \E node \in StarNodes, distance \in Offsets : SetSource(node, distance)
    \/ \E node \in StarNodes, distance \in Offsets : SetReceiver(node, distance)
    \/ \E treshold \in Thresholds : Solve(treshold)

Spec == Init /\ [][Next]_vars

\* ------------------------------------------------ claims: path enumeration
\* Reference notions, independent of FindPaths.
Adjacent(g, u, v) == v \in NeighborSet(g, u)

\* p is a walk of g from s to r.
IsWalk(g, s, r, p) ==
    /\ Len(p) >= 1
    /\ p[1] = s
    /\ p[Len(p)] = r
    /\ \A i \in 1..(Len(p) - 1) : Adjacent(g, p[i], p[i + 1])

\* Number of walks of g from u to r with exactly k edges.
RECURSIVE NumWalks(_, _, _, _)
NumWalks(g, u, r, k) ==
    IF k = 0 THEN (IF u = r THEN 1 ELSE 0)
    ELSE LET Sum[v \in -1..(Cardinality(NodesOf(g)) - 1)] ==
                 IF v = -1 THEN 0
                 ELSE Sum[v - 1] + (IF Adjacent(g, u, v)
                                    THEN NumWalks(g, v, r, k - 1) ELSE 0)
         IN  Sum[Cardinality(NodesOf(g)) - 1]

RECURSIVE NumWalksUpTo(_, _, _, _)
NumWalksUpTo(g, u, r, k) ==
    IF k < 0 THEN 0 ELSE NumWalks(g, u, r, k) + NumWalksUpTo(g, u, r, k - 1)

Range(seq) == {seq[i] : i \in 1..Len(seq)}

PathsReturned == call.op = "compute_paths" /\ ret.kind = "paths"

Cutoff == ShortestPathLength(graph, source, receiver) + call.treshold

\* C1 as stated: the enumeration returns exactly the walks from source to
\* receiver with at most shortest distance + threshold edges: every returned
\* sequence is such a walk, none is returned twice, and there are as many as
\* such walks exist.
C1_ExactlyBoundedWalks ==
    PathsReturned =>
        /\ \A i \in 1..Len(ret.paths) :
              /\ IsWalk(graph, source, receiver, ret.paths[i])
              /\ Len(ret.paths[i]) - 1 <= Cutoff
        /\ Cardinality(Range(ret.paths)) = Len(ret.paths)
        /\ Len(ret.paths) = NumWalksUpTo(graph, source, receiver, Cutoff)

ReceiverOnlyLast(p, r) == \A i \in 1..(Len(p) - 1) : p[i] # r

\* C2 as stated: every enumerated walk contains the receiver only as its
\* last node.
C2_ReceiverOnlyLast ==
    PathsReturned =>
        \A i \in 1..Len(ret.paths) : ReceiverOnlyLast(ret.paths[i], receiver)

\* C2 amended: every enumerated walk ends at the receiver, [receiver] itself
\* is emitted when the enumeration starts at the receiver, and with a
\* threshold of at most 1 and no self-loop at the receiver the receiver
\* appears at no earlier position.
C2_EndsAtReceiver ==
    PathsReturned =>
        /\ source = receiver => <<receiver>> \in Range(ret.paths)
        /\ \A i \in 1..Len(ret.paths) :
               LET p == ret.paths[i]
               IN  /\ p[Len(p)] = receiver
                   /\ (call.treshold <= 1 /\ ~Adjacent(graph, receiver, receiver))
                          => ReceiverOnlyLast(p, receiver)

\* A threshold-1 enumeration returned a walk one edge longer than the
\* shortest.
C2_Witness ==
    /\ PathsReturned
    /\ call.treshold = 1
    /\ \E i \in 1..Len(ret.paths) : Len(ret.paths[i]) - 1 = Cutoff
    /\ source # receiver

\* ------------------------------------------------ claims: junctions
Solved == call.op = "solve"

\* solve reached the construction of a junction and stopped there or right
\* after it: ret.at holds that junction's node, widths and category.
AtJunction == Solved /\ ret.kind = "error" /\ ret.at.node # None

\* Number of streets incident to a node.
StreetCount(node) == Len(Neighbors(graph, node))

\* The category the street count calls for.
CategoryFor(k, widths) ==
    IF k = 1 THEN "dead-end"
    ELSE IF k = 2 THEN "bend"
    ELSE IF k = 3
         THEN IF "left" \in DOMAIN widths /\ "right" \in DOMAIN widths
              THEN "t-junction" ELSE "side-street"
    ELSE "crossroads"

\* C3 as stated: the category assigned to an interior node is the one its
\* number of incident streets calls for (1 dead-end, 2 bend, 3 t-junction or
\* side-street, 4 crossroads).
C3_CategoryByStreetCount ==
    AtJunction =>
        ret.at.junction = CategoryFor(StreetCount(ret.at.node), ret.at.widths)

\* C8 as stated: a junction whose widths hold a number of entries, the next
\* marker aside, outside 1..4 is refused with the "No such junction type"
\* ValueError and with no other error.
C8_UnsupportedJunctionError ==
    (AtJunction /\ JunctionSize(ret.at.widths) \notin 1..4) =>
        ret.error = ErrNoSuchJunction

PairPresent(widths, pair) ==
    pair[1] \in DOMAIN widths /\ pair[2] \in DOMAIN widths

PairUnequal(widths, pair) ==
    PairPresent(widths, pair) /\ widths[pair[1]] # widths[pair[2]]

RequiredPairs(junction) ==
    IF junction = "t-junction" THEN {<<"left", "right">>}
    ELSE IF junction = "side-street" THEN {<<"backward", "forward">>}
    ELSE IF junction = "crossroads"
         THEN {<<"backward", "forward">>, <<"left", "right">>}
    ELSE {}

\* C7 as stated: a t-junction, side-street or crossroads is refused with the
\* "not (yet) implemented" ValueError whenever a required opposite pair has
\* unequal widths and is constructed whenever all required pairs are equal;
\* a bend or dead-end is never refused for its widths.
C7_AsymmetricRefused ==
    AtJunction =>
        LET widths == ret.at.widths
            pairs == RequiredPairs(ret.at.junction)
        IN  /\ (\E pair \in pairs : PairUnequal(widths, pair))
                   => ret.error = ErrNotImplemented
            /\ (pairs # {} /\ \A pair \in pairs :
                    PairPresent(widths, pair) /\ ~PairUnequal(widths, pair))
                   => ret.inside # "Junction.__init__"
            /\ ret.at.junction \in {"bend", "dead-end"}
                   => ret.error # ErrNotImplemented

\* ------------------------------------------------ claims: solve
Street(u, v) == modified_adjacency[u][v]

\* C4 as stated: on a chain source - A - receiver whose node A has exactly
\* two streets, of equal width, solve(0) with both distances 0 returns the
\* power of the single path [source, A, receiver]: the integral of the
\* product of the first street's attenuation, the bend function of ratio 1
\* and the second street's attenuation.
C4_ThreeNodeChainSolves ==
    ( /\ Solved
      /\ call.treshold = 0
      /\ source \in ArmNodes /\ receiver \in ArmNodes /\ source # receiver
      /\ distance_from_source = 0 /\ distance_from_receiver = 0
      /\ Neighbors(graph, 0) \in {<<source, receiver>>, <<receiver, source>>}
      /\ Street(0, source).width = Street(0, receiver).width )
    =>
    /\ ret.kind = "power"
    /\ ret.paths = << <<source, 0, receiver>> >>
    /\ Len(ret.terms) = 1
    /\ \E f \in {[shape |-> "crossing", times |-> 1],
                 [shape |-> "turning", times |-> 2]}, w \in 1..MaxWidth :
         LET fA == [shape |-> f.shape, times |-> f.times, ratio |-> <<w, w>>]
             first == Street(source, 0)
             second == Street(0, receiver)
         IN  \E r \in {0, 1} :
               ret.terms[1] = <<Atten(first.alpha, first.length, 0),
                                Transmit(fA, r),
                                Atten(second.alpha, second.length, r)>>

\* C5 as stated: for a path of two nodes the integrated function is the
\* attenuation of the single street, with the length reduced by both
\* distances, once, and nothing else.
C5_TwoNodeIntegrand ==
    (Solved /\ ret.kind = "power") =>
        \A i \in 1..Len(ret.paths) :
            Len(ret.paths[i]) = 2 =>
                LET street == Street(ret.paths[i][1], ret.paths[i][2])
                IN  ret.terms[i] =
                        <<Atten(street.alpha,
                                street.length - distance_from_source
                                              - distance_from_receiver, 0)>>

\* ------------------------------------------------ claims: rotation parity
\* The exit at interior position j of path p (list index j) is lateral: the
\* street taken lies to the left or right of the street of entry.
LateralExit(p, j) ==
    DirectionOf(Street(p[j + 1], p[j + 2]).orientation,
                Street(p[j + 1], p[j]).orientation) \in {"left", "right"}

\* Parity of the number of lateral exits among interior nodes 1..i of p.
LateralParity(p, i) == Cardinality({j \in 1..i : LateralExit(p, j)}) % 2

\* C10 as stated: for every enumerated path with interior nodes 1..k solve
\* composes a function in which, for each i in 1..k, the attenuation of
\* street i and the function of junction i are evaluated at pi/2 - theta
\* exactly when the parity of the lateral exits of junctions 1..i is odd
\* (the rotation recorded for step i), and at theta otherwise.
C10_RotationParity ==
    Solved =>
        \A n \in 1..Len(ret.paths) :
            LET p == ret.paths[n]
            IN  Len(p) > 2 =>
                    /\ n <= Len(ret.terms)
                    /\ \A i \in 1..(Len(p) - 2) :
                           /\ ret.terms[n][2 * i + 1].kind = "atten"
                           /\ ret.terms[n][2 * i + 1].rotated = LateralParity(p, i)
                           /\ ret.terms[n][2 * i + 2].kind = "junction"
                           /\ ret.terms[n][2 * i + 2].rotated = LateralParity(p, i)

Count(seq, x) == Cardinality({i \in 1..Len(seq) : seq[i] = x})

SubBag(small, large) == \A x \in Range(small) : Count(small, x) <= Count(large, x)

SolveAt(treshold) ==
    SolveOutcome(modified_adjacency, graph, source, distance_from_source,
                 receiver, distance_from_receiver, treshold)

\* C6 as stated: for t <= t', whenever solve(t) returns a power solve(t')
\* returns one too, made of the contributions of solve(t) and further
\* non-negative ones.
C6_MonotoneAlwaysReturns ==
    Solved =>
        \A t \in 0..call.treshold :
            SolveAt(t).kind = "power" =>
                /\ ret.kind = "power"
                /\ SubBag(SolveAt(t).terms, ret.terms)

\* ------------------------------------------------ claims: frame
\* C9: no call changes the streets' records or the topology; solve changes
\* neither endpoint nor distance; a setter sets its own endpoint and
\* distance to its arguments and leaves the other's alone.
C9_Frame ==
    [][ /\ modified_adjacency' = modified_adjacency
        /\ graph' = graph
        /\ call'.op = "solve" =>
               /\ source' = source
               /\ distance_from_source' = distance_from_source
               /\ receiver' = receiver
               /\ distance_from_receiver' = distance_from_receiver
        /\ call'.op = "set_source" =>
               /\ source' = call'.node
               /\ distance_from_source' = call'.distance
               /\ receiver' = receiver
               /\ distance_from_receiver' = distance_from_receiver
        /\ call'.op = "set_receiver" =>
               /\ receiver' = call'.node
               /\ distance_from_receiver' = call'.distance
               /\ source' = source
               /\ distance_from_source' = distance_from_source ]_vars

\* A solve that walked a path to its end with a non-zero source distance,
\* the streets still as constructed.
C9_Witness ==
    /\ Solved /\ ret.kind = "power" /\ Len(ret.terms) >= 1
    /\ distance_from_source > 0
    /\ Street(ret.paths[1][1], ret.paths[1][2]).length
           = StreetLength(IF ret.paths[1][1] = 0
                          THEN ret.paths[1][2] ELSE ret.paths[1][1])

====
